---- MODULE Spec2Model ----
(***************************************************************************)
(* dask_lightgbm/core.py: the locality-aware training coordinator `train`, *)
(* the worker-side task `_fit_local`, the pure topology helpers            *)
(* `parse_host_port` / `build_network_params`, `LGBMClassifier.fit` and    *)
(* the lazy `predict` / `_predict_part`.                                   *)
(*                                                                         *)
(* Strings that the code takes apart (worker addresses) are sequences of   *)
(* tokens: the separators "://" and ":" and pieces of text holding neither.*)
(* Strings that the code only builds (the machines field) are TLA+ strings.*)
(* The dask cluster (partition computation, placement, the choice of the   *)
(* worker that executes a submitted task) and the LightGBM trainer are the *)
(* environment: every outcome they can produce is a nondeterministic       *)
(* choice.                                                                 *)
(***************************************************************************)
EXTENDS Integers, Sequences, FiniteSets, TLC

\* ------------------------------------------------------------------ bounds
\* Largest number of partitions of X, of y and of sample_weight.
MaxParts == 3
\* Longest owner list the scheduler reports for one partition (replication).
MaxOwners == 2
\* Longest worker list handed to build_network_params in SpecNet.
MaxAddrs == 3
\* Largest number of row chunks (partitions) of the data handed to predict.
MaxChunks == 2

\* ------------------------------------------------------- program constants
\* params.get("local_listen_port", 12400)
DefaultListenPort == 12400
\* params.get("listen_time_out", 120)
DefaultListenTimeOut == 120

\* --------------------------------------------------------------- addresses
W1 == <<"tcp", "://", "192.168.0.1", ":", "34545">>
W2 == <<"tcp", "://", "192.168.0.2", ":", "34346">>
W3 == <<"tcp", "://", "192.168.0.3", ":", "34347">>
\* no scheme prefix, a second worker on the host of W1
W4 == <<"192.168.0.1", ":", "34546">>
\* an IPv6 worker address, tcp://[::1]:34348
W5 == <<"tcp", "://", "[", ":", ":", "1]", ":", "34348">>
\* no port at all
W6 == <<"tcp", "://", "192.168.0.6">>

NoAddr == <<>>

\* int(port): the decimal numerals among the text pieces, with their values.
PortValue ==
    ("34545" :> 34545) @@ ("34346" :> 34346) @@ ("34347" :> 34347) @@
    ("34546" :> 34546) @@ ("34348" :> 34348)

\* '://' in address
HasSchemeSep(address) == \E i \in 1..Len(address) : address[i] = "://"

\* address.rsplit('://', 1)[1]: what follows the LAST "://"
AfterLastSchemeSep(address) ==
    LET last == CHOOSE i \in 1..Len(address) :
                    /\ address[i] = "://"
                    /\ \A j \in (i+1)..Len(address) : address[j] # "://"
    IN  SubSeq(address, last + 1, Len(address))

\* str.split(':') on a string holding no "://": the pieces between the colons
RECURSIVE SplitColon(_)
SplitColon(s) ==
    IF s = <<>> THEN <<"">>
    ELSE IF Head(s) = ":" THEN <<"">> \o SplitColon(Tail(s))
    ELSE LET r == SplitColon(Tail(s))
         IN  <<Head(s) \o Head(r)>> \o Tail(r)

\* parse_host_port giving an address that has no port the port 0
parse_host_port_default_port(address) ==
    LET rest   == IF HasSchemeSep(address) THEN AfterLastSchemeSep(address)
                  ELSE address
        pieces == SplitColon(rest)
    IN  IF Len(pieces) = 1 THEN [err |-> "none", host |-> pieces[1], port |-> 0]
        ELSE IF Len(pieces) # 2 THEN [err |-> "ValueError", host |-> "", port |-> 0]
        ELSE IF pieces[2] \notin DOMAIN PortValue
             THEN [err |-> "ValueError", host |-> "", port |-> 0]
        ELSE [err |-> "none", host |-> pieces[1], port |-> PortValue[pieces[2]]]

\* parse_host_port(address): (host, port), or ValueError from the tuple
\* unpacking (not exactly two pieces) or from int(port).
parse_host_port(address) ==
    LET rest   == IF HasSchemeSep(address) THEN AfterLastSchemeSep(address)
                  ELSE address
        pieces == SplitColon(rest)
    IN  IF Len(pieces) # 2 THEN [err |-> "ValueError", host |-> "", port |-> 0]
        ELSE IF pieces[2] \notin DOMAIN PortValue
             THEN [err |-> "ValueError", host |-> "", port |-> 0]
        ELSE [err |-> "none", host |-> pieces[1], port |-> PortValue[pieces[2]]]

\* ---------------------------------------------------- build_network_params
\* The keys of {addr: ... for i, addr in enumerate(worker_addresses)} in
\* insertion order: each address once, at its first position.
RECURSIVE DictKeys(_)
DictKeys(worker_addresses) ==
    IF worker_addresses = <<>> THEN <<>>
    ELSE LET front == DictKeys(SubSeq(worker_addresses, 1, Len(worker_addresses) - 1))
             last  == worker_addresses[Len(worker_addresses)]
         IN  IF \E i \in 1..Len(front) : front[i] = last THEN front
             ELSE Append(front, last)

\* AddrPort counting positions from 1
AddrPortOneBased(worker_addresses, local_listen_port, addr) ==
    LET i == CHOOSE k \in 1..Len(worker_addresses) :
                 /\ worker_addresses[k] = addr
                 /\ \A m \in (k+1)..Len(worker_addresses) : worker_addresses[m] # addr
    IN  local_listen_port + i

\* addr_port_map[addr]: a repeated key keeps the value of its LAST position.
AddrPort(worker_addresses, local_listen_port, addr) ==
    LET i == CHOOSE k \in 1..Len(worker_addresses) :
                 /\ worker_addresses[k] = addr
                 /\ \A m \in (k+1)..Len(worker_addresses) : worker_addresses[m] # addr
    IN  local_listen_port + (i - 1)

\* JoinComma with ", " between the entries
RECURSIVE JoinCommaSpace(_)
JoinCommaSpace(entries) ==
    IF entries = <<>> THEN ""
    ELSE IF Len(entries) = 1 THEN entries[1]
    ELSE entries[1] \o ", " \o JoinCommaSpace(Tail(entries))

\* ",".join(entries)
RECURSIVE JoinComma(_)
JoinComma(entries) ==
    IF entries = <<>> THEN ""
    ELSE IF Len(entries) = 1 THEN entries[1]
    ELSE entries[1] \o "," \o JoinComma(Tail(entries))

NoNetwork ==
    [err |-> "unset", machines |-> "", local_listen_port |-> 0,
     listen_time_out |-> 0, num_machines |-> 0]

build_network_params(worker_addresses, local_worker_ip, local_listen_port, listen_time_out) ==
    LET keys == DictKeys(worker_addresses)
        port(addr) == AddrPort(worker_addresses, local_listen_port, addr)
        entries == [i \in 1..Len(keys) |->
                       parse_host_port(keys[i]).host \o ":" \o ToString(port(keys[i]))]
    IN  IF \E i \in 1..Len(keys) : parse_host_port(keys[i]).err # "none"
        THEN [NoNetwork EXCEPT !.err = "ValueError"]
        ELSE IF \A i \in 1..Len(keys) : keys[i] # local_worker_ip
        THEN [NoNetwork EXCEPT !.err = "KeyError"]
        ELSE [err |-> "none",
              machines |-> JoinComma(entries),
              local_listen_port |-> port(local_worker_ip),
              listen_time_out |-> listen_time_out,
              num_machines |-> Len(keys)]

\* ------------------------------------------------------------ dictionaries
\* d.get(k, default)
Get(d, k, default) == IF k \in DOMAIN d THEN d[k] ELSE default

\* toolz.assoc(d, k, v), and d[k] = v
assoc(d, k, v) == [x \in DOMAIN d \cup {k} |-> IF x = k THEN v ELSE d[x]]

\* Merge as {**b, **a}
MergeFirstWins(a, b) == [x \in DOMAIN a \cup DOMAIN b |-> IF x \in DOMAIN a THEN a[x] ELSE b[x]]

\* {**a, **b}
Merge(a, b) == [x \in DOMAIN a \cup DOMAIN b |-> IF x \in DOMAIN b THEN b[x] ELSE a[x]]

\* ------------------------------------------------------------- environment
\* The clusters a run can meet: the worker addresses the scheduler knows.
Pools == { {W1, W2}, {W1, W6} }

\* client.ncores(): cores per worker
ncores == (W1 :> 4) @@ (W2 :> 2) @@ (W3 :> 8) @@ (W5 :> 1) @@ (W6 :> 1)

\* The hyperparameters a caller passes (LGBMClassifier.get_params()).
ParamChoices ==
    { [objective |-> "binary"],
      [objective |-> "binary", tree_learner |-> "feature",
       local_listen_port |-> 13000, listen_time_out |-> 60,
       machines |-> "10.0.0.1:1", num_machines |-> 9] }

Perms(n) == {f \in [1..n -> 1..n] : \A i, j \in 1..n : f[i] = f[j] => i = j}

\* The owner lists who_has can report for a finished partition.
OwnerLists(ws) ==
    {s \in UNION {[1..k -> ws] : k \in 1..MaxOwners} :
        \A i, j \in 1..Len(s) : s[i] = s[j] => i = j}

Min(a, b) == IF a <= b THEN a ELSE b

NoError == [type |-> "none", arg |-> <<>>]
NoModel == [job |-> 0, worker |-> NoAddr, truthy |-> FALSE]
NoOutcome == [kind |-> "none", model |-> NoModel, error |-> NoError]

\* dask_lightgbm.LGBMClassifier(**p) before fit: its parameters, and the
\* fields fit assigns, none assigned yet.
Estimator(p) ==
    [params |-> p, _Booster |-> NoModel, _le |-> NoModel, _classes |-> NoModel,
     _n_classes |-> NoModel, _n_features |-> NoModel, _evals_result |-> NoModel,
     _best_iteration |-> NoModel, _best_score |-> NoModel]

VARIABLES
    workers,              \* the addresses of the cluster's workers
    held,                 \* worker -> the ports its LightGBM network layer has bound
    pc,                   \* where the caller is in train
    params,               \* the caller's hyperparameter dict (train mutates it)
    data_parts,           \* X.to_delayed()
    label_parts,          \* y.to_delayed()
    sample_weight_parts,  \* sample_weight.to_delayed(), when sample_weight is given
    parts,                \* the zipped tuples handed to client.compute
    status,               \* the status of each part's future
    who_has,              \* client.who_has(parts), as its items in iteration order
    has_what,             \* the workers that hold at least one finished part
    worker_map,           \* worker -> list of parts, in insertion order
    jobs,                 \* futures_classifiers: one _fit_local task per item
    outcome,              \* what train returned or raised
    self,                 \* the dask_lightgbm.LGBMClassifier whose fit calls train
    net_in,               \* SpecNet: the arguments of build_network_params
    net_out,              \* SpecNet: its result
    pred_in,              \* SpecPredict: the arguments of predict
    pred_out              \* SpecPredict: the collection predict returns

trainVars == <<workers, held, pc, params, data_parts, label_parts,
               sample_weight_parts, parts, status, who_has, has_what, worker_map,
               jobs, outcome, self>>
netVars == <<net_in, net_out>>
predVars == <<pred_in, pred_out>>
vars == <<trainVars, netVars, predVars>>

NoWeight == [given |-> FALSE, parts |-> <<>>]
NoNetIn == [worker_addresses |-> <<>>, local_worker_ip |-> NoAddr,
            local_listen_port |-> 0, listen_time_out |-> 0]
NoPredIn == [data |-> [kind |-> "none", chunks |-> <<>>],
             model |-> [n_classes |-> 0], proba |-> FALSE]
NoPredOut == [made |-> FALSE, nblocks |-> 0, rows_known |-> FALSE, rows |-> <<>>,
              cols |-> <<>>, blocks |-> <<>>]

Init ==
    /\ workers \in Pools
    /\ held = [w \in workers |-> {}]
    /\ pc = "idle"
    /\ params = [objective |-> "binary"]
    /\ data_parts = <<>>
    /\ label_parts = <<>>
    /\ sample_weight_parts = NoWeight
    /\ parts = <<>>
    /\ status = <<>>
    /\ who_has = <<>>
    /\ has_what = {}
    /\ worker_map = <<>>
    /\ jobs = <<>>
    /\ outcome = NoOutcome
    /\ self = Estimator([objective |-> "binary"])
    /\ net_in = NoNetIn
    /\ net_out = NoNetwork
    /\ pred_in = NoPredIn
    /\ pred_out = NoPredOut

\* ------------------------------------------------------------------- train
Completed(js) == \A j \in 1..Len(js) : js[j].state \in {"finished", "error"}

\* X.to_delayed(), y.to_delayed(), sample_weight.to_delayed(): the caller
\* enters train with nX feature partitions, nY label partitions and, when
\* nW > 0, nW weight partitions.  A partition is named by its position in its
\* own collection.  The caller is the fit of an estimator made with the
\* parameters p: params = self.get_params(True).
Prepare(nX, nY, nW, p) ==
    /\ pc = "idle"
    /\ pc' = "zip"
    /\ self' = Estimator(p)
    /\ params' = self'.params
    /\ data_parts' = [i \in 1..nX |-> i]
    /\ label_parts' = [i \in 1..nY |-> i]
    /\ sample_weight_parts' =
           IF nW = 0 THEN NoWeight ELSE [given |-> TRUE, parts |-> [i \in 1..nW |-> i]]
    /\ UNCHANGED <<workers, held, parts, status, who_has, has_what, worker_map,
                   jobs, outcome, netVars, predVars>>

\* train has returned or raised and every task of the run has completed: the
\* caller is back where it can call train again, on the same cluster.  The
\* locals of the finished call are gone; what the workers hold stays.
CallAgain ==
    /\ pc \in {"returned", "raised"}
    /\ Completed(jobs)
    /\ pc' = "idle"
    /\ params' = [objective |-> "binary"]
    /\ parts' = <<>>
    /\ status' = <<>>
    /\ has_what' = {}
    /\ worker_map' = <<>>
    /\ jobs' = <<>>
    /\ outcome' = NoOutcome
    /\ self' = Estimator([objective |-> "binary"])
    /\ UNCHANGED <<workers, held, data_parts, label_parts, sample_weight_parts,
                   who_has, netVars, predVars>>

\* list(zip(a, b)) and list(zip(a, b, c)): as long as the shortest argument
Zip2(a, b) == [i \in 1..Min(Len(a), Len(b)) |-> <<a[i], b[i]>>]
Zip3(a, b, c) == [i \in 1..Min(Len(a), Min(Len(b), Len(c))) |-> <<a[i], b[i], c[i]>>]

\* parts = list(map(delayed, zip(...)))
ZipParts(dp, lp, swp) ==
    IF swp.given THEN Zip3(dp, lp, swp.parts) ELSE Zip2(dp, lp)

\* part.key of the i-th part
Key(i) == "tuple-" \o ToString(i)

\* key_to_part_dict[key]
key_to_part_dict(ps, key) == ps[CHOOSE i \in 1..Len(ps) : Key(i) = key]

\* parts = client.compute(parts): every part becomes a pending future.  The
\* three lists of delayed partitions are not read again.
Compute ==
    /\ pc = "zip"
    /\ parts' = ZipParts(data_parts, label_parts, sample_weight_parts)
    /\ status' = [i \in 1..Len(parts') |-> "pending"]
    /\ data_parts' = <<>>
    /\ label_parts' = <<>>
    /\ sample_weight_parts' = NoWeight
    /\ pc' = "wait"
    /\ UNCHANGED <<workers, held, params, who_has, has_what, worker_map,
                   jobs, outcome, self, netVars, predVars>>

\* The cluster finishes the computation of part i.
PartFinish(i) ==
    /\ i \in 1..Len(status)
    /\ status[i] = "pending"
    /\ status' = [status EXCEPT ![i] = "finished"]
    /\ UNCHANGED <<workers, held, pc, params, data_parts, label_parts,
                   sample_weight_parts, parts, who_has, has_what, worker_map,
                   jobs, outcome, self, netVars, predVars>>

\* The computation of part i raises on its worker.
PartError(i) ==
    /\ i \in 1..Len(status)
    /\ status[i] = "pending"
    /\ status' = [status EXCEPT ![i] = "error"]
    /\ UNCHANGED <<workers, held, pc, params, data_parts, label_parts,
                   sample_weight_parts, parts, who_has, has_what, worker_map,
                   jobs, outcome, self, netVars, predVars>>

\* WaitDone with return_when=FIRST_COMPLETED
WaitFirstCompleted(st) == \E i \in 1..Len(st) : st[i] # "pending"

\* wait(parts) returns: return_when=ALL_COMPLETED, and an errored future is
\* a completed one (wait does not raise).
WaitDone(st) == \A i \in 1..Len(st) : st[i] # "pending"

Wait ==
    /\ pc = "wait"
    /\ WaitDone(status)
    /\ pc' = "who_has"
    /\ UNCHANGED <<workers, held, params, data_parts, label_parts,
                   sample_weight_parts, parts, status, who_has, has_what, worker_map,
                   jobs, outcome, self, netVars, predVars>>

\* first taking the last owner listed
last(ws) == ws[Len(ws)]

\* toolz.first(workers)
first(ws) == Head(ws)

\* worker_map[worker].append(part) on a defaultdict(list)
MapAppend(wm, worker, part) ==
    IF \E i \in 1..Len(wm) : wm[i].worker = worker
    THEN [i \in 1..Len(wm) |->
            IF wm[i].worker = worker
            THEN [wm[i] EXCEPT !.list_of_parts = Append(@, part)]
            ELSE wm[i]]
    ELSE Append(wm, [worker |-> worker, list_of_parts |-> <<part>>])

\* for key, workers in who_has.items(): worker_map[first(workers)].append(...)
\* first() of an empty owner list raises StopIteration out of the loop.
RECURSIVE GroupByFirstOwner(_, _, _)
GroupByFirstOwner(items, ps, wm) ==
    IF items = <<>> THEN [err |-> "none", map |-> wm]
    ELSE IF Head(items).workers = <<>> THEN [err |-> "StopIteration", map |-> wm]
    ELSE GroupByFirstOwner(Tail(items), ps,
             MapAppend(wm, first(Head(items).workers),
                       key_to_part_dict(ps, Head(items).key)))

\* who_has = client.who_has(parts) and the grouping loop.  The scheduler
\* answers for the keys in an order of its own (the client sends a set of
\* keys); a finished part has one or more owners, an errored part has none.
Locate ==
    /\ pc = "who_has"
    /\ \E order \in Perms(Len(parts)),
          owners \in [1..Len(parts) -> OwnerLists(workers)] :
       LET items == [k \in 1..Len(parts) |->
                       [key |-> Key(order[k]),
                        workers |-> IF status[order[k]] = "finished"
                                    THEN owners[order[k]] ELSE <<>>]]
           g == GroupByFirstOwner(items, parts, <<>>)
       IN  IF g.err = "none"
           THEN /\ who_has' = items
                /\ has_what' = {w \in workers : \E k \in 1..Len(items) :
                                   \E m \in 1..Len(items[k].workers) :
                                       items[k].workers[m] = w}
                /\ worker_map' = g.map
                /\ pc' = "located"
                /\ outcome' = outcome
           ELSE /\ who_has' = <<>>
                /\ has_what' = {}
                /\ worker_map' = <<>>
                /\ pc' = "raised"
                /\ outcome' = [kind |-> "raised", model |-> NoModel,
                               error |-> [type |-> g.err, arg |-> <<>>]]
    /\ UNCHANGED <<workers, held, params, data_parts, label_parts,
                   sample_weight_parts, parts, status, jobs, self, netVars,
                   predVars>>

\* list(worker_map.keys())
MapKeys(wm) == [i \in 1..Len(wm) |-> wm[i].worker]

NoWorkerData == [data |-> <<>>, labels |-> <<>>, weight |-> <<>>]

\* SubmitFitLocal handing each task a worker list that starts with its own
\* worker
SubmitFitLocalOwnFirst(wm, p, worker, list_of_parts) ==
    [worker |-> worker,
     params |-> assoc(p, "num_threads", ncores[worker]),
     list_of_parts |-> list_of_parts,
     worker_addresses |-> <<worker>> \o SelectSeq(MapKeys(wm), LAMBDA w : w # worker),
     local_listen_port |-> Get(p, "local_listen_port", DefaultListenPort),
     listen_time_out |-> Get(p, "listen_time_out", DefaultListenTimeOut),
     state |-> "pending",
     exec |-> NoAddr,
     net |-> NoNetwork,
     local |-> NoWorkerData,
     bound |-> FALSE,
     falsy |-> FALSE,
     error |-> NoError]

\* client.submit(_fit_local, ...) for one item of worker_map: the keyword
\* arguments of the task.  No workers= restriction is passed.
SubmitFitLocal(wm, p, worker, list_of_parts) ==
    [worker |-> worker,
     params |-> assoc(p, "num_threads", ncores[worker]),
     list_of_parts |-> list_of_parts,
     worker_addresses |-> MapKeys(wm),
     local_listen_port |-> Get(p, "local_listen_port", DefaultListenPort),
     listen_time_out |-> Get(p, "listen_time_out", DefaultListenTimeOut),
     state |-> "pending",
     exec |-> NoAddr,
     net |-> NoNetwork,
     local |-> NoWorkerData,
     bound |-> FALSE,
     falsy |-> FALSE,
     error |-> NoError]

\* ParamsSeenByEstimator when fit hands train the estimator's own dict
ParamsShared(own, p) == p

\* params = self.get_params(True) is a dict of its own: what train assigns
\* into params (p is params afterwards) does not reach the estimator's
\* parameters.
ParamsSeenByEstimator(own, p) == own

\* ncores = client.ncores(); params['tree_learner'] = "data"; one
\* client.submit per item of worker_map.  who_has is not read again.
Dispatch ==
    /\ pc = "located"
    /\ params' = assoc(params, "tree_learner", "data")
    /\ self' = [self EXCEPT !.params = ParamsSeenByEstimator(@, params')]
    /\ jobs' = [j \in 1..Len(worker_map) |->
                   SubmitFitLocal(worker_map, params', worker_map[j].worker,
                                  worker_map[j].list_of_parts)]
    /\ who_has' = <<>>
    /\ pc' = "gather"
    /\ UNCHANGED <<workers, held, has_what, data_parts, label_parts,
                   sample_weight_parts,
                   parts, status, worker_map, outcome, netVars, predVars>>

\* -------------------------------------------------------------- _fit_local
\* The four entries of network_params as a dict
NetworkDict(np) ==
    [machines |-> np.machines, local_listen_port |-> np.local_listen_port,
     listen_time_out |-> np.listen_time_out, num_machines |-> np.num_machines]

\* PrepareData concatenating the labels from the last part to the first
PrepareDataLabelsReversed(list_of_parts) ==
    [data   |-> [k \in 1..Len(list_of_parts) |-> list_of_parts[k][1]],
     labels |-> [k \in 1..Len(list_of_parts) |->
                    list_of_parts[Len(list_of_parts) + 1 - k][2]],
     weight |-> IF Len(list_of_parts[1]) = 3
                THEN [k \in 1..Len(list_of_parts) |-> list_of_parts[k][3]]
                ELSE <<>>]

\* zip(*list_of_parts) and concat: the blocks of the concatenated features,
\* labels and weights, each named by the partition it comes from.
PrepareData(list_of_parts) ==
    [data   |-> [k \in 1..Len(list_of_parts) |-> list_of_parts[k][1]],
     labels |-> [k \in 1..Len(list_of_parts) |-> list_of_parts[k][2]],
     weight |-> IF Len(list_of_parts[1]) = 3
                THEN [k \in 1..Len(list_of_parts) |-> list_of_parts[k][3]]
                ELSE <<>>]

\* _fit_local up to the try statement, on the worker whose address is e
\* (get_worker().address).  build_network_params raises before the try.
FitLocalEnter(job, e) ==
    LET np == build_network_params(job.worker_addresses, e, job.local_listen_port,
                                   job.listen_time_out)
    IN  IF np.err # "none"
        THEN [job EXCEPT !.exec = e, !.state = "error",
                         !.error = [type |-> np.err,
                                    arg |-> IF np.err = "KeyError" THEN e ELSE <<>>]]
        ELSE [job EXCEPT !.exec = e, !.state = "running", !.net = np,
                         !.params = Merge(@, NetworkDict(np)),
                         !.local = PrepareData(job.list_of_parts)]

\* FitExit with the release after the try block instead of in a finally
FitExitOnSuccessOnly(h, e, raised) == IF raised THEN h ELSE [h EXCEPT ![e] = {}]

\* try: ... finally: _safe_call(_LIB.LGBM_NetworkFree()), on either exit:
\* the worker process gives up whatever its network layer has bound.
FitExit(h, e, raised) == [h EXCEPT ![e] = {}]

\* The scheduler starts task j on a worker of its choice.
FitLocalStart(j, e) ==
    /\ j \in 1..Len(jobs)
    /\ jobs[j].state = "pending"
    /\ e \in workers
    /\ jobs' = [jobs EXCEPT ![j] = FitLocalEnter(jobs[j], e)]
    /\ UNCHANGED <<workers, held, pc, params, data_parts, label_parts,
                   sample_weight_parts, parts, status, who_has, has_what, worker_map,
                   outcome, self, netVars, predVars>>

\* classifier.fit sets up the network with the merged params: the worker
\* binds its local_listen_port.
FitBind(j) ==
    /\ j \in 1..Len(jobs)
    /\ jobs[j].state = "running"
    /\ jobs' = [jobs EXCEPT ![j].state = "fitting", ![j].bound = TRUE]
    /\ held' = [held EXCEPT ![jobs[j].exec] = @ \cup {jobs[j].net.local_listen_port}]
    /\ UNCHANGED <<workers, pc, params, data_parts, label_parts,
                   sample_weight_parts, parts, status, who_has, has_what, worker_map,
                   outcome, self, netVars, predVars>>

\* classifier.fit returns; finally; return classifier.  The object is what
\* the caller's model_factory made: bool() of it is the factory's affair
\* (falsy: an object whose __bool__ or __len__ gives False or 0).
FitReturn(j, falsy) ==
    /\ j \in 1..Len(jobs)
    /\ jobs[j].state = "fitting"
    /\ jobs' = [jobs EXCEPT ![j].state = "finished", ![j].falsy = falsy]
    /\ held' = FitExit(held, jobs[j].exec, FALSE)
    /\ UNCHANGED <<workers, pc, params, data_parts, label_parts,
                   sample_weight_parts, parts, status, who_has, has_what, worker_map,
                   outcome, self, netVars, predVars>>

\* model_factory(**params) or classifier.fit raises, before or after the
\* port is bound; finally; the error leaves _fit_local as the trainer made it.
FitRaise(j) ==
    /\ j \in 1..Len(jobs)
    /\ jobs[j].state \in {"running", "fitting"}
    /\ jobs' = [jobs EXCEPT ![j].state = "error",
                            ![j].error = [type |-> "LightGBMError", arg |-> <<>>]]
    /\ held' = FitExit(held, jobs[j].exec, TRUE)
    /\ UNCHANGED <<workers, pc, params, data_parts, label_parts,
                   sample_weight_parts, parts, status, who_has, has_what, worker_map,
                   outcome, self, netVars, predVars>>

\* ------------------------------------------------------------------ gather
\* GatherReady waiting until every future has finished without error
GatherReadyAllFinished(js) == \A j \in 1..Len(js) : js[j].state = "finished"

\* client.gather(futures) with errors='raise' stops waiting at the first
\* errored future, else waits for all of them.
GatherReady(js) ==
    \/ \E j \in 1..Len(js) : js[j].state = "error"
    \/ \A j \in 1..Len(js) : js[j].state = "finished"

\* GatherRaises with errors='skip'
GatherSkipsErrors(js) == FALSE

\* gather re-raises the exception of an errored future
GatherRaises(js) == \E j \in 1..Len(js) : js[j].state = "error"

\* the first errored future in the order of futures_classifiers
FirstErrored(js) ==
    CHOOSE j \in 1..Len(js) :
        /\ js[j].state = "error"
        /\ \A k \in 1..(j-1) : js[k].state # "error"

\* the classifier task j returned
Classifier(js, j) == [job |-> j, worker |-> js[j].exec, truthy |-> ~js[j].falsy]

\* bool(v) of a gathered result
Truthy(v) == v.truthy

\* TruthyResults taking the results from the last one to the first
TruthyResultsReversed(js) ==
    SelectSeq([j \in 1..Len(js) |-> Classifier(js, Len(js) + 1 - j)], Truthy)

\* results = [v for v in results if v]
TruthyResults(js) ==
    SelectSeq([j \in 1..Len(js) |-> Classifier(js, j)], Truthy)

\* Gather returning None when no result is left after the filter
GatherNoneWhenEmpty ==
    /\ pc = "gather"
    /\ GatherReady(jobs)
    /\ IF GatherRaises(jobs)
       THEN /\ pc' = "raised"
            /\ outcome' = [kind |-> "raised", model |-> NoModel,
                           error |-> jobs[FirstErrored(jobs)].error]
       ELSE LET results == TruthyResults(jobs)
            IN  /\ pc' = "returned"
                /\ outcome' = [kind |-> "returned",
                               model |-> IF results = <<>> THEN NoModel ELSE results[1],
                               error |-> NoError]
    /\ UNCHANGED <<workers, held, params, data_parts, label_parts,
                   sample_weight_parts, parts, status, who_has, has_what, worker_map,
                   jobs,
                   self, netVars, predVars>>

\* results = client.gather(futures_classifiers); filter; return results[0]
Gather ==
    /\ pc = "gather"
    /\ GatherReady(jobs)
    /\ IF GatherRaises(jobs)
       THEN /\ pc' = "raised"
            /\ outcome' = [kind |-> "raised", model |-> NoModel,
                           error |-> jobs[FirstErrored(jobs)].error]
       ELSE LET results == TruthyResults(jobs)
            IN  IF results = <<>>
                THEN /\ pc' = "raised"
                     /\ outcome' = [kind |-> "raised", model |-> NoModel,
                                    error |-> [type |-> "IndexError", arg |-> <<>>]]
                ELSE /\ pc' = "returned"
                     /\ outcome' = [kind |-> "returned", model |-> results[1],
                                    error |-> NoError]
    /\ UNCHANGED <<workers, held, params, data_parts, label_parts,
                   sample_weight_parts, parts, status, who_has, has_what, worker_map,
                   jobs,
                   self, netVars, predVars>>

\* --------------------------------------------------------- LGBMClassifier
\* train has returned the model to LGBMClassifier.fit:
\* self.set_params(**model.get_params()) and the eight assignments.  The
\* parameters of the model are those its job built it with.
FitAssign ==
    /\ pc = "returned"
    /\ self._Booster = NoModel
    /\ LET model == outcome.model
       IN  self' = [params |-> Merge(self.params, jobs[model.job].params),
                    _Booster |-> model, _le |-> model, _classes |-> model,
                    _n_classes |-> model, _n_features |-> model,
                    _evals_result |-> model, _best_iteration |-> model,
                    _best_score |-> model]
    /\ UNCHANGED <<workers, held, pc, params, data_parts, label_parts,
                   sample_weight_parts, parts, status, who_has, has_what, worker_map,
                   jobs, outcome, netVars, predVars>>

Next ==
    \/ \E nX, nY \in 1..MaxParts, nW \in 0..MaxParts, p \in ParamChoices :
           Prepare(nX, nY, nW, p)
    \/ Compute
    \/ \E i \in 1..MaxParts : PartFinish(i)
    \/ \E i \in 1..MaxParts : PartError(i)
    \/ Wait
    \/ Locate
    \/ Dispatch
    \/ \E j \in 1..MaxParts, e \in workers : FitLocalStart(j, e)
    \/ \E j \in 1..MaxParts : FitBind(j)
    \/ \E j \in 1..MaxParts, falsy \in BOOLEAN : FitReturn(j, falsy)
    \/ \E j \in 1..MaxParts : FitRaise(j)
    \/ Gather
    \/ FitAssign
    \/ CallAgain

Spec == Init /\ [][Next]_vars

\* A step of the coordinator itself, the thread that called train
CoordinatorStep == Compute \/ Wait \/ Locate \/ Dispatch \/ Gather

\* The computation of part i has been submitted and has not completed.
PartPending(i) == i \in 1..Len(status) /\ status[i] = "pending"

\* Job j has been dispatched and has neither returned nor raised.
JobInProgress(j) ==
    j \in 1..Len(jobs) /\ jobs[j].state \in {"pending", "running", "fitting"}

\* The runs in which the coordinator takes its next step whenever it can
\* (nothing but wait and gather holds the calling thread), every submitted
\* partition computation completes, and every dispatched job returns or
\* raises.  Locate is enabled exactly when pc = "who_has" and every Locate
\* step leaves "who_has", so its weak fairness is []<>(pc # "who_has").
SpecLive ==
    /\ Spec
    /\ WF_vars(Compute \/ Wait \/ Dispatch \/ Gather)
    /\ []<>(pc # "who_has")
    /\ \A i \in 1..MaxParts : []<>~PartPending(i)
    /\ \A j \in 1..MaxParts : []<>~JobInProgress(j)

\* ------------------------------------------- build_network_params, directly
\* The addresses a caller of build_network_params can pass.
NetAddrs == {W1, W2, W3, W4, W5, W6}

NetInputs ==
    [worker_addresses : UNION {[1..n -> NetAddrs] : n \in 1..MaxAddrs},
     local_worker_ip  : NetAddrs,
     local_listen_port : {DefaultListenPort, 13000},
     listen_time_out  : {DefaultListenTimeOut, 60}]

InitNet ==
    /\ workers = {W1, W2}
    /\ held = [w \in workers |-> {}]
    /\ pc = "idle"
    /\ params = [objective |-> "binary"]
    /\ data_parts = <<>>
    /\ label_parts = <<>>
    /\ sample_weight_parts = NoWeight
    /\ parts = <<>>
    /\ status = <<>>
    /\ who_has = <<>>
    /\ has_what = {}
    /\ worker_map = <<>>
    /\ jobs = <<>>
    /\ outcome = NoOutcome
    /\ self = Estimator([objective |-> "binary"])
    /\ net_in \in NetInputs
    /\ net_out = NoNetwork
    /\ pred_in = NoPredIn
    /\ pred_out = NoPredOut

\* params = build_network_params(worker_addresses, local_worker_ip,
\*                               local_listen_port, listen_time_out)
BuildNetworkParams ==
    /\ net_out.err = "unset"
    /\ net_out' = build_network_params(net_in.worker_addresses, net_in.local_worker_ip,
                                       net_in.local_listen_port, net_in.listen_time_out)
    /\ UNCHANGED <<net_in, trainVars, predVars>>

NextNet == BuildNetworkParams

SpecNet == InitNet /\ [][NextNet]_vars

\* ------------------------------------------------------------------ predict
\* The row counts a chunk of the data can have (the tests cut 10 rows in 5s).
ChunkRows == {1, 5}

\* model.n_classes_ of the fitted models handed to predict
NClasses == {2, 3}

\* The arguments of predict: a dask array (chunks: the row chunks and the
\* one column chunk) or a dask dataframe (its partitions' row counts), a
\* fitted local model and the proba flag.
PredInputs ==
    [data  : [kind   : {"array", "dataframe"},
              chunks : {<<rows, <<4>>>> :
                           rows \in UNION {[1..n -> ChunkRows] : n \in 1..MaxChunks}}],
     model : [n_classes : NClasses],
     proba : BOOLEAN]

RECURSIVE Sum(_)
Sum(s) == IF s = <<>> THEN 0 ELSE Head(s) + Sum(Tail(s))

\* Block (partition) i of the data: its rows, each named by its position in
\* the whole collection; a dataframe partition carries them as its index.
Part(data, i) ==
    LET off == Sum(SubSeq(data.chunks[1], 1, i - 1))
    IN  [kind |-> data.kind, rows |-> [k \in 1..data.chunks[1][i] |-> off + k]]

\* model.predict(X): one label per row of X, in the order of the rows
ModelPredict(model, X) == [k \in 1..Len(X) |-> [row |-> X[k], scores |-> <<>>]]

\* model.predict_proba(X): one score per class for every row of X
ModelPredictProba(model, X) ==
    [k \in 1..Len(X) |-> [row |-> X[k], scores |-> [c \in 1..model.n_classes |-> c]]]

\* _predict_part(part, model, proba): the prediction of one block; for a
\* dataframe partition it is wrapped in a frame or series on part.index
_predict_part(part, model, proba) ==
    LET X == part.rows
        result == IF proba THEN ModelPredictProba(model, X)
                  ELSE ModelPredict(model, X)
    IN  IF part.kind = "dataframe"
        THEN [index |-> part.rows, values |-> result]
        ELSE [index |-> <<>>, values |-> result]

\* MapBlocksKwargs with drop_axis=1 for proba too
MapBlocksKwargsDropAlways(data, model, proba) == [drop_axis |-> 1, chunks |-> <<>>]

\* the kwargs predict builds for data.map_blocks (drop_axis |-> 0: None)
MapBlocksKwargs(data, model, proba) ==
    IF proba
    THEN [drop_axis |-> 0, chunks |-> <<data.chunks[1], <<model.n_classes>>>>]
    ELSE [drop_axis |-> 1, chunks |-> <<>>]

\* The chunks map_blocks declares for its result: the chunks= it is given,
\* else the chunks of the data without the dropped axis.
DeclaredChunks(data, kwargs) ==
    IF kwargs.chunks # <<>> THEN kwargs.chunks
    ELSE IF kwargs.drop_axis = 1 THEN <<data.chunks[1]>>
    ELSE data.chunks

\* predict(client, model, data, proba): the lazy collection it returns.  For
\* an array the declared chunks are those of map_blocks; for a dataframe
\* map_partitions keeps the partitions and .values gives an array whose row
\* chunk sizes are unknown (nan), with the columns of the inferred meta.
predict(model, data, proba) ==
    IF data.kind = "dataframe"
    THEN [made |-> TRUE, nblocks |-> Len(data.chunks[1]), rows_known |-> FALSE,
          rows |-> <<>>,
          cols |-> IF proba THEN <<model.n_classes>> ELSE <<>>,
          blocks |-> <<>>]
    ELSE LET dc == DeclaredChunks(data, MapBlocksKwargs(data, model, proba))
         IN  [made |-> TRUE, nblocks |-> Len(dc[1]), rows_known |-> TRUE,
              rows |-> dc[1],
              cols |-> IF Len(dc) = 2 THEN dc[2] ELSE <<>>,
              blocks |-> <<>>]

InitPredict ==
    /\ workers = {W1, W2}
    /\ held = [w \in workers |-> {}]
    /\ pc = "idle"
    /\ params = [objective |-> "binary"]
    /\ data_parts = <<>>
    /\ label_parts = <<>>
    /\ sample_weight_parts = NoWeight
    /\ parts = <<>>
    /\ status = <<>>
    /\ who_has = <<>>
    /\ has_what = {}
    /\ worker_map = <<>>
    /\ jobs = <<>>
    /\ outcome = NoOutcome
    /\ self = Estimator([objective |-> "binary"])
    /\ net_in = NoNetIn
    /\ net_out = NoNetwork
    /\ pred_in \in PredInputs
    /\ pred_out = NoPredOut

\* result = predict(client, model, data, proba)
Predict ==
    /\ ~pred_out.made
    /\ pred_out' = predict(pred_in.model, pred_in.data, pred_in.proba)
    /\ UNCHANGED <<pred_in, trainVars, netVars>>

\* result.compute(): every block of the result is _predict_part of the
\* block of the data at the same position; .values drops a frame's index.
ComputeResult ==
    /\ pred_out.made
    /\ pred_out.blocks = <<>>
    /\ pred_out' = [pred_out EXCEPT !.blocks =
           [i \in 1..Len(pred_in.data.chunks[1]) |->
               _predict_part(Part(pred_in.data, i), pred_in.model, pred_in.proba).values]]
    /\ UNCHANGED <<pred_in, trainVars, netVars>>

NextPredict == Predict \/ ComputeResult

SpecPredict == InitPredict /\ [][NextPredict]_vars

\* ================================================================== claims
IsDistinct(s) == \A i, j \in 1..Len(s) : s[i] = s[j] => i = j

Started(j) == jobs[j].exec # NoAddr

\* C1: every dispatched job executes on the worker under whose key its
\* list_of_parts was grouped, so no two jobs of one run execute on the same
\* worker and none executes on a worker outside the worker list; and every
\* worker that owns partitions has exactly one job.
C1_JobRunsOnOwner ==
    /\ \A j \in 1..Len(jobs) : Started(j) => jobs[j].exec = jobs[j].worker
    /\ \A j, k \in 1..Len(jobs) :
           (j # k /\ Started(j) /\ Started(k)) => jobs[j].exec # jobs[k].exec
    /\ \A j \in 1..Len(jobs) : Started(j) =>
           \E i \in 1..Len(jobs[j].worker_addresses) :
               jobs[j].worker_addresses[i] = jobs[j].exec
    /\ jobs # <<>> =>
           /\ Len(jobs) = Len(worker_map)
           /\ \A j \in 1..Len(jobs) : jobs[j].worker = worker_map[j].worker
           /\ IsDistinct(MapKeys(worker_map))

Configured(j) == jobs[j].net.err = "none"

\* C2: within one train call every local trainer is configured with the same
\* machines string, the same num_machines and the same listen_time_out; the
\* local_listen_port is what differs, between jobs on different workers.
C2_IdenticalTopology ==
    \A j, k \in 1..Len(jobs) :
        (Configured(j) /\ Configured(k)) =>
            /\ jobs[j].net.machines = jobs[k].net.machines
            /\ jobs[j].net.num_machines = jobs[k].net.num_machines
            /\ jobs[j].net.listen_time_out = jobs[k].net.listen_time_out
            /\ jobs[j].params["machines"] = jobs[k].params["machines"]
            /\ jobs[j].params["num_machines"] = jobs[k].params["num_machines"]
            /\ (jobs[j].exec # jobs[k].exec =>
                    jobs[j].net.local_listen_port # jobs[k].net.local_listen_port)

\* Two jobs of one run, configured on two different workers.
C2_Witness ==
    /\ Len(jobs) = 2
    /\ Configured(1) /\ Configured(2)
    /\ jobs[1].exec # jobs[2].exec

\* C3: for N distinct workers in an ordered list and base port P, the address
\* at position i gets port P+i (i from 0): the assigned ports are exactly
\* P..P+N-1, num_machines is N, and the local worker's local_listen_port is
\* the port of its position.
C3_PortAssignment ==
    LET wa == net_in.worker_addresses
        P  == net_in.local_listen_port
        N  == Len(wa)
    IN  (net_out.err = "none" /\ IsDistinct(wa)) =>
            /\ net_out.num_machines = N
            /\ \A i \in 1..N : AddrPort(wa, P, wa[i]) = P + (i - 1)
            /\ {AddrPort(wa, P, wa[i]) : i \in 1..N} = P..(P + N - 1)
            /\ \A i \in 1..N : wa[i] = net_in.local_worker_ip =>
                   net_out.local_listen_port = P + (i - 1)

\* Three distinct workers, the local one in the middle.
C3_Witness ==
    /\ net_out.err = "none"
    /\ Len(net_in.worker_addresses) = 3
    /\ IsDistinct(net_in.worker_addresses)
    /\ net_in.worker_addresses[2] = net_in.local_worker_ip

\* The host of an address [scheme "://"] host ":" port
HostText(address) == address[Len(address) - 2]

RECURSIVE ExpectedMachines(_, _)
ExpectedMachines(wa, P) ==
    IF wa = <<>> THEN ""
    ELSE LET n == Len(wa)
             entry == HostText(wa[n]) \o ":" \o ToString(P + n - 1)
         IN  IF n = 1 THEN entry
             ELSE ExpectedMachines(SubSeq(wa, 1, n - 1), P) \o "," \o entry

TestNetIn ==
    [worker_addresses |-> <<W1, W2, W3>>, local_worker_ip |-> W2,
     local_listen_port |-> 12400, listen_time_out |-> 120]

\* C4: machines is the comma-joined host:assignedPort entries in worker-list
\* order, the host being the address without its scheme:// prefix and without
\* its own port, the assigned port being base port + position; listen_time_out
\* is passed through; and the addresses of test_build_network_params give
\* 192.168.0.1:12400,192.168.0.2:12401,192.168.0.3:12402, 12401, 3 and 120.
C4_MachinesFormat ==
    LET wa == net_in.worker_addresses
    IN  /\ (net_out.err = "none" /\ IsDistinct(wa)) =>
               /\ net_out.machines = ExpectedMachines(wa, net_in.local_listen_port)
               /\ net_out.listen_time_out = net_in.listen_time_out
        /\ (net_in = TestNetIn /\ net_out.err # "unset") =>
               net_out = [err |-> "none",
                          machines |-> "192.168.0.1:12400,192.168.0.2:12401,192.168.0.3:12402",
                          local_listen_port |-> 12401,
                          listen_time_out |-> 120,
                          num_machines |-> 3]

\* build_network_params has run on the addresses of the test.
C4_Witness == net_in = TestNetIn /\ net_out.err = "none"

\* C5: after the grouping step every part in a worker's group is a part
\* whose first-listed owner is that worker, and every part is in exactly one
\* group, once.
C5_GroupingByFirstOwner ==
    pc = "located" =>
        /\ \A g \in 1..Len(worker_map) :
             \A k \in 1..Len(worker_map[g].list_of_parts) :
               \E m \in 1..Len(who_has) :
                 /\ key_to_part_dict(parts, who_has[m].key) = worker_map[g].list_of_parts[k]
                 /\ Head(who_has[m].workers) = worker_map[g].worker
        /\ \A i \in 1..Len(parts) :
             Cardinality({gk \in {<<g, k>> : g \in 1..Len(worker_map), k \in 1..Len(parts)} :
                            /\ gk[2] <= Len(worker_map[gk[1]].list_of_parts)
                            /\ worker_map[gk[1]].list_of_parts[gk[2]] = parts[i]}) = 1

\* Three parts grouped on two workers, one of the parts replicated.
C5_Witness ==
    /\ pc = "located"
    /\ Len(parts) = 3
    /\ Len(worker_map) = 2
    /\ \E m \in 1..Len(who_has) : Len(who_has[m].workers) = 2

\* C6: when the numbers of feature, label and weight partitions differ,
\* train fails before anything is submitted: no part is computed, no job
\* is dispatched.
C6_ArityMismatchFailsBeforeSubmit ==
    [][ ( /\ pc = "zip"
          /\ \/ Len(data_parts) # Len(label_parts)
             \/ /\ sample_weight_parts.given
                /\ Len(sample_weight_parts.parts) # Len(data_parts) )
        => (pc' = "raised" /\ parts' = <<>> /\ jobs' = <<>>) ]_vars

TrainEnded == pc \in {"returned", "raised"}

\* C8 as stated: if a worker's local trainer raises, train raises an error
\* that identifies the failing worker and returns no model.
C8_ErrorNamesFailingWorker ==
    (TrainEnded /\ \E j \in 1..Len(jobs) : jobs[j].error.type = "LightGBMError") =>
        /\ outcome.kind = "raised"
        /\ outcome.model = NoModel
        /\ \E j \in 1..Len(jobs) :
               /\ jobs[j].state = "error"
               /\ outcome.error.arg \in {jobs[j].worker, jobs[j].exec}

\* C8 as amended: if a job of the run has raised, train raises to its caller
\* the error of an errored job exactly as that job raised it and returns no
\* model, also when other jobs have finished; and an errored job is not run
\* again.
C8_TrainerErrorPropagates ==
    /\ []( (TrainEnded /\ \E j \in 1..Len(jobs) : jobs[j].state = "error") =>
             /\ outcome.kind = "raised"
             /\ outcome.model = NoModel
             /\ \E j \in 1..Len(jobs) :
                    jobs[j].state = "error" /\ outcome.error = jobs[j].error )
    /\ [][ \A j \in 1..Len(jobs) :
             jobs[j].state = "error" => (jobs' = <<>> \/ jobs'[j] = jobs[j]) ]_vars

\* train has raised a trainer's error while another job finished.
C8_Witness ==
    /\ pc = "raised"
    /\ outcome.error.type = "LightGBMError"
    /\ \E j \in 1..Len(jobs) : jobs[j].state = "finished"
    /\ \E j \in 1..Len(jobs) : jobs[j].error.type = "LightGBMError"

\* C9: if the computation of a partition failed, train fails with an error
\* that carries the identity of the failing partition, and dispatches no job.
C9_PartitionErrorNamesPartition ==
    (TrainEnded /\ \E i \in 1..Len(status) : status[i] = "error") =>
        /\ outcome.kind = "raised"
        /\ jobs = <<>>
        /\ \E i \in 1..Len(status) :
               status[i] = "error" /\ outcome.error.arg = <<Key(i)>>

\* C10: once train is past wait(parts) no part is pending, so ownership is
\* queried with every computation over; and jobs exist only after the
\* ownership query and the grouping.
C10_OwnershipAfterBarrier ==
    /\ pc \in {"who_has", "located", "gather", "returned", "raised"} =>
           \A i \in 1..Len(status) : status[i] \in {"finished", "error"}
    /\ jobs # <<>> => pc \in {"gather", "returned", "raised"}
    /\ pc = "located" => Len(who_has) = Len(parts)

\* Ownership is about to be queried for three parts, finished and errored.
C10_Witness ==
    /\ pc = "who_has"
    /\ Len(status) = 3
    /\ \E i \in 1..Len(status) : status[i] = "finished"
    /\ \E i \in 1..Len(status) : status[i] = "error"

\* C11 as stated: a worker of the pool that holds no part executes no
\* training job, no job is submitted for it, it is in no job's worker list,
\* and num_machines counts only workers that hold a part.
C11_IdleWorkerGetsNoJob ==
    \A w \in workers :
        (jobs # <<>> /\ w \notin has_what) =>
            \A j \in 1..Len(jobs) :
                /\ jobs[j].exec # w
                /\ jobs[j].worker # w
                /\ \A i \in 1..Len(jobs[j].worker_addresses) :
                       jobs[j].worker_addresses[i] # w
                /\ Configured(j) =>
                       jobs[j].net.num_machines <= Cardinality(has_what)

\* C12: when the gather step finds every result falsy (or no result at
\* all), train raises (the IndexError of results[0]) and returns no model.
C12_NoModelProducedRaises ==
    [][ ( /\ pc = "gather"
          /\ pc' # "gather"
          /\ \A j \in 1..Len(jobs) : jobs[j].state = "finished" /\ jobs[j].falsy )
        => ( /\ pc' = "raised"
             /\ outcome'.kind = "raised"
             /\ outcome'.model = NoModel
             /\ outcome'.error.type = "IndexError" ) ]_vars

\* Two jobs returned falsy objects and train raised.
C12_Witness ==
    /\ pc = "raised"
    /\ outcome.error.type = "IndexError"
    /\ Len(jobs) = 2
    /\ \A j \in 1..Len(jobs) : jobs[j].state = "finished" /\ jobs[j].falsy

\* An address with no ":" after its optional scheme:// prefix
Malformed(address) ==
    LET rest == IF HasSchemeSep(address) THEN AfterLastSchemeSep(address)
                ELSE address
    IN  \A i \in 1..Len(rest) : rest[i] # ":"

\* C13 as stated: a malformed worker address is found before any job is
\* dispatched: with such an address among the workers of worker_map there
\* is no job, and train ends with the address-format error.
C13_MalformedCaughtBeforeDispatch ==
    (\E g \in 1..Len(worker_map) : Malformed(worker_map[g].worker)) =>
        /\ jobs = <<>>
        /\ TrainEnded => outcome.error.type = "ValueError"

\* C13 as amended: a malformed worker address makes topology construction
\* fail with ValueError inside every job that starts, after dispatch and
\* before the job has prepared data, built a model or bound a port; and
\* train raises ValueError and returns no model.
C13_MalformedFailsInsideJob ==
    \A j \in 1..Len(jobs) :
        (\E i \in 1..Len(jobs[j].worker_addresses) :
             Malformed(jobs[j].worker_addresses[i])) =>
            /\ jobs[j].state \in {"pending", "error"}
            /\ Started(j) =>
                   /\ jobs[j].state = "error"
                   /\ jobs[j].error.type = "ValueError"
                   /\ jobs[j].net = NoNetwork
                   /\ jobs[j].local = NoWorkerData
                   /\ ~jobs[j].bound
            /\ TrainEnded =>
                   /\ outcome.kind = "raised"
                   /\ outcome.model = NoModel
                   /\ outcome.error.type = "ValueError"

\* train raised ValueError out of a job whose worker list holds an address
\* with no port.
C13_Witness ==
    /\ pc = "raised"
    /\ outcome.error.type = "ValueError"
    /\ \E j \in 1..Len(jobs) :
           /\ jobs[j].error.type = "ValueError"
           /\ \E i \in 1..Len(jobs[j].worker_addresses) :
                  Malformed(jobs[j].worker_addresses[i])

\* C16: when train raises inside LGBMClassifier.fit the estimator has none
\* of its eight trained-model fields assigned, and from the call of train to
\* its raising no step changes the estimator: its parameters are the ones it
\* had before the call.
C16_FailedFitLeavesEstimator ==
    /\ []( pc = "raised" =>
             /\ outcome.kind = "raised"
             /\ outcome.error # NoError
             /\ self = Estimator(self.params) )
    /\ [][ (pc \in {"zip", "wait", "who_has", "located", "gather"}) =>
               self' = self ]_vars

\* train raised a trainer's error after it had set tree_learner in its own
\* params; the estimator still has the caller's tree_learner.
C16_Witness ==
    /\ pc = "raised"
    /\ outcome.error.type = "LightGBMError"
    /\ params["tree_learner"] = "data"
    /\ "tree_learner" \in DOMAIN self.params
    /\ self.params["tree_learner"] = "feature"
    /\ self._Booster = NoModel

\* C17: train returns only when every job has finished, and what it returns
\* is the result of one job, the first truthy one in the order of the jobs
\* (the order of worker_map's keys): every result before it is falsy; and
\* when every job has finished and a result is truthy, train does return.
C17_FirstTruthyResult ==
    /\ pc = "returned" =>
           /\ \A j \in 1..Len(jobs) :
                  jobs[j].state = "finished" /\ jobs[j].worker = worker_map[j].worker
           /\ \E k \in 1..Len(jobs) :
                  /\ outcome.model = Classifier(jobs, k)
                  /\ ~jobs[k].falsy
                  /\ \A i \in 1..(k-1) : jobs[i].falsy
           /\ Cardinality({k \in 1..Len(jobs) : outcome.model = Classifier(jobs, k)}) = 1
    /\ ( /\ TrainEnded
         /\ jobs # <<>>
         /\ \A j \in 1..Len(jobs) : jobs[j].state = "finished"
         /\ \E j \in 1..Len(jobs) : ~jobs[j].falsy ) => pc = "returned"

\* Two jobs finished, the first result falsy, the second truthy: train
\* returned the second.
C17_Witness ==
    /\ pc = "returned"
    /\ Len(jobs) = 2
    /\ jobs[1].falsy /\ ~jobs[2].falsy
    /\ outcome.model.job = 2

\* C18: the i-th part pairs the i-th feature partition with the i-th label
\* partition and the i-th weight partition; and in every job that prepared
\* its data the k-th block of the features, of the labels and of the weights
\* all come from the partition of the k-th part of the job's list.
C18_RowCorrespondence ==
    /\ \A i \in 1..Len(parts) : \A c \in 1..Len(parts[i]) : parts[i][c] = i
    /\ \A j \in 1..Len(jobs) :
           jobs[j].local # NoWorkerData =>
               LET l  == jobs[j].local
                   lp == jobs[j].list_of_parts
               IN  /\ Len(l.data) = Len(lp)
                   /\ Len(l.labels) = Len(lp)
                   /\ Len(l.weight) \in {0, Len(lp)}
                   /\ Len(l.weight) = 0 <=> Len(lp[1]) = 2
                   /\ \A k \in 1..Len(lp) :
                          /\ l.data[k] = lp[k][1]
                          /\ l.labels[k] = l.data[k]
                          /\ Len(l.weight) # 0 => l.weight[k] = l.data[k]

\* A job concatenated two parts with weights, the later partition first.
C18_Witness ==
    \E j \in 1..Len(jobs) :
        /\ Len(jobs[j].local.data) = 2
        /\ Len(jobs[j].local.weight) = 2
        /\ jobs[j].local.data[1] > jobs[j].local.data[2]

\* C19: the hyperparameters of every job have tree_learner "data" and the
\* core count of the worker the job's parts are grouped under as
\* num_threads; and those a trainer is built with have as machines,
\* local_listen_port, listen_time_out and num_machines the values
\* build_network_params computes from the workers of worker_map, the
\* executing worker and the caller's local_listen_port and listen_time_out
\* (12400 and 120 when the caller gives none), whatever the caller gave
\* under these four names.
C19_TrainerHyperparameters ==
    \A j \in 1..Len(jobs) :
        /\ jobs[j].params["tree_learner"] = "data"
        /\ jobs[j].params["num_threads"] = ncores[worker_map[j].worker]
        /\ jobs[j].state \in {"running", "fitting", "finished"} => Configured(j)
        /\ Configured(j) =>
               LET np == build_network_params(
                             MapKeys(worker_map), jobs[j].exec,
                             Get(params, "local_listen_port", 12400),
                             Get(params, "listen_time_out", 120))
               IN  /\ np.err = "none"
                   /\ jobs[j].params["machines"] = np.machines
                   /\ jobs[j].params["local_listen_port"] = np.local_listen_port
                   /\ jobs[j].params["listen_time_out"] = np.listen_time_out
                   /\ jobs[j].params["num_machines"] = np.num_machines
                   /\ jobs[j].params["objective"] = params["objective"]

\* A trainer built on the second worker of the list, for a caller who gave
\* tree_learner, machines, num_machines, a base port and a timeout.
C19_Witness ==
    \E j \in 1..Len(jobs) :
        /\ Configured(j)
        /\ Len(jobs[j].worker_addresses) = 2
        /\ jobs[j].exec = jobs[j].worker_addresses[2]
        /\ "machines" \in DOMAIN params
        /\ params["machines"] = "10.0.0.1:1"
        /\ params["num_machines"] = 9
        /\ params["local_listen_port"] = 13000
        /\ jobs[j].params["local_listen_port"] = 13001
        /\ jobs[j].params["num_machines"] = 2

\* The shape of an array with the given row chunks and column chunks
Shape(rows, cols) == <<Sum(rows)>> \o cols

\* What C15 says of the forced result: as many blocks as the data, block i
\* holding for each row of block i of the data, in their order, one label
\* (proba false) or one vector of n_classes scores (proba true).
ForcedAsInput ==
    LET rows == pred_in.data.chunks[1]
    IN  /\ Len(pred_out.blocks) = Len(rows)
        /\ \A i \in 1..Len(rows) :
               /\ Len(pred_out.blocks[i]) = rows[i]
               /\ \A k \in 1..rows[i] :
                      /\ pred_out.blocks[i][k].row = Sum(SubSeq(rows, 1, i - 1)) + k
                      /\ Len(pred_out.blocks[i][k].scores) =
                             IF pred_in.proba THEN pred_in.model.n_classes ELSE 0
        /\ (rows = <<5, 5>> /\ pred_in.model.n_classes = 3) =>
               Shape([i \in 1..2 |-> Len(pred_out.blocks[i])],
                     IF pred_in.proba THEN <<Len(pred_out.blocks[1][1].scores)>> ELSE <<>>)
                   = IF pred_in.proba THEN <<10, 3>> ELSE <<10>>

\* C15 as stated: the result of predict has the blocks of its input, in
\* the declared chunks before forcing as well as in the forced result: one
\* value per row, or one vector of n_classes per row with proba.
C15_PredictKeepsPartitions ==
    /\ pred_out.made =>
           /\ pred_out.nblocks = Len(pred_in.data.chunks[1])
           /\ pred_out.rows_known
           /\ pred_out.rows = pred_in.data.chunks[1]
           /\ pred_out.cols = IF pred_in.proba THEN <<pred_in.model.n_classes>> ELSE <<>>
    /\ pred_out.blocks # <<>> => ForcedAsInput

\* C15 as amended: the declared row chunks are those of the input when the
\* input is an array; for a dataframe only the number of blocks and the
\* width are declared, and the row counts hold for the forced result.
C15_PredictShapes ==
    /\ pred_out.made =>
           /\ pred_out.nblocks = Len(pred_in.data.chunks[1])
           /\ pred_out.cols = IF pred_in.proba THEN <<pred_in.model.n_classes>> ELSE <<>>
           /\ pred_in.data.kind = "array" =>
                  /\ pred_out.rows_known
                  /\ pred_out.rows = pred_in.data.chunks[1]
                  /\ (pred_out.rows = <<5, 5>> /\ pred_in.model.n_classes = 3) =>
                         Shape(pred_out.rows, pred_out.cols)
                             = IF pred_in.proba THEN <<10, 3>> ELSE <<10>>
    /\ pred_out.blocks # <<>> => ForcedAsInput

\* predict_proba of the test's array, 10 rows in two chunks and 3 classes,
\* forced.
C15_Witness ==
    /\ pred_in.data.kind = "array"
    /\ pred_in.data.chunks[1] = <<5, 5>>
    /\ pred_in.model.n_classes = 3
    /\ pred_in.proba
    /\ pred_out.blocks # <<>>

\* C20: under SpecLive a call of train ends, returning or raising; and while
\* it has not ended the coordinator cannot step only at wait(parts) with a
\* part still pending, or at gather with a job it dispatched not completed.
C20_TrainTerminates ==
    /\ (pc = "zip") ~> TrainEnded
    /\ []( (pc \in {"zip", "wait", "who_has", "located", "gather"}
            /\ ~ENABLED CoordinatorStep) =>
              \/ pc = "wait" /\ \E i \in 1..Len(status) : status[i] = "pending"
              \/ /\ pc = "gather"
                 /\ \E j \in 1..Len(jobs) : JobInProgress(j)
                 /\ \A j \in 1..Len(jobs) : jobs[j].state # "error" )

\* The coordinator waits at gather for a job it dispatched while another
\* job has finished.
C20_Witness ==
    /\ pc = "gather"
    /\ Len(jobs) = 2
    /\ jobs[1].state = "finished"
    /\ jobs[2].state = "fitting"

====
